---------------------------- MODULE Spec2Model ----------------------------
(***************************************************************************)
(* A model of WAFFLE's SSA value definitions (src/ir/value.rs) and of its  *)
(* textual printer (src/ir/display.rs), and of the command-line driver     *)
(* (src/bin/waffle-util.rs).                                               *)
(*                                                                         *)
(* Four specifications share the module:                                  *)
(*   SpecValue   - ValueDef::{ty, tys, visit_uses, update_uses} applied to *)
(*                 a value definition drawn from a bounded set;            *)
(*   SpecFunc    - FunctionBodyDisplay::fmt, one action per phase of the   *)
(*                 function dump;                                          *)
(*   SpecModule  - ModuleDisplay::fmt, run twice over the same module;     *)
(*   SpecDriver  - one run of waffle-util's main.                          *)
(* Every specification leaves the variables of the others at their idle   *)
(* values.                                                                 *)
(***************************************************************************)
EXTENDS Integers, Sequences, FiniteSets, TLC

VARIABLES
    def,        \* value.rs: the ValueDef the calls operate on (self)
    clo,        \* value.rs: the closure handed to update_uses
    log,        \* value.rs: one record per finished call, oldest first
    aborted,    \* value.rs: a panic!() has unwound the program
    fbd,        \* display.rs: the FunctionBodyDisplay being formatted (self)
    fpc,        \* display.rs: where FunctionBodyDisplay::fmt stands
    fblk,       \* display.rs: the blocks fmt has finished
    fout,       \* display.rs: what fmt has written to the formatter so far
    md,         \* display.rs: the ModuleDisplay being formatted (self)
    dumps,      \* display.rs: the output of each finished ModuleDisplay::fmt
    lastOrder,  \* display.rs: the iteration order of the latest sig_strs map
    reordered,  \* display.rs: two runs so far had maps of different orders
    opts,       \* waffle-util.rs: the parsed command line (Options)
    env,        \* waffle-util.rs: the input file and what the run meets
    dpc,        \* waffle-util.rs: where main stands
    dmod,       \* waffle-util.rs: the funcs of `module` once it is decoded
    trace       \* waffle-util.rs: the calls main has made so far, in order

valueVars == <<def, clo, log, aborted>>

funcVars == <<fbd, fpc, fblk, fout>>

moduleVars == <<md, dumps, lastOrder, reordered>>

driverVars == <<opts, env, dpc, dmod, trace>>

vars == <<def, clo, log, aborted, fbd, fpc, fblk, fout, md, dumps, lastOrder, reordered,
          opts, env, dpc, dmod, trace>>

----------------------------------------------------------------------------
(* Bounds of the model.                                                    *)

\* Longest operand list of an Operator or a Trace.
MaxArgs == 2

\* Longest result-type list of an Operator.
MaxTys == 2

\* Calls made on one value definition in one behaviour.
MaxCalls == 3

\* Values in the value pool of a printed function body.
MaxValues == 2

\* Signatures and functions of a printed module.
MaxSigs == 2

MaxFuncs == 2

\* Runs of ModuleDisplay::fmt on one module.
MaxRuns == 2

\* Functions of the Wasm file the driver is run on.
MaxDriverFuncs == 2

----------------------------------------------------------------------------
(* Domains the inputs are drawn from.                                      *)

ValueIds == {0, 1}

BlockIds == {0, 1}

Types == {"i32", "i64"}

Ops == {"i32add"}

TraceIds == {0}

ResultIdxs == {0, 1}

SeqsUpTo(S, n) == UNION {[1..k -> S] : k \in 0..n}

----------------------------------------------------------------------------
(* Option<T>: None is the empty sequence, Some(x) the one-element one.     *)

NoneOpt == <<>>

Some(x) == <<x>>

----------------------------------------------------------------------------
(* enum ValueDef.                                                          *)

BlockParam(b, i, t) == [tag |-> "BlockParam", block |-> b, idx |-> i, ty |-> t]

Operator(o, a, t) == [tag |-> "Operator", op |-> o, args |-> a, tys |-> t]

PickOutput(v, i, t) == [tag |-> "PickOutput", from |-> v, idx |-> i, ty |-> t]

Alias(v) == [tag |-> "Alias", value |-> v]

Placeholder(t) == [tag |-> "Placeholder", ty |-> t]

Trace(i, a) == [tag |-> "Trace", id |-> i, args |-> a]

DefNone == [tag |-> "None"]

ValueDefs ==
    {BlockParam(b, i, t) : b \in BlockIds, i \in ResultIdxs, t \in Types}
    \cup {Operator(o, a, t) : o \in Ops, a \in SeqsUpTo(ValueIds, MaxArgs),
                              t \in SeqsUpTo(Types, MaxTys)}
    \cup {PickOutput(v, i, t) : v \in ValueIds, i \in ResultIdxs, t \in Types}
    \cup {Alias(v) : v \in ValueIds}
    \cup {Placeholder(t) : t \in Types}
    \cup {Trace(i, a) : i \in TraceIds, a \in SeqsUpTo(ValueIds, MaxArgs)}
    \cup {DefNone}

----------------------------------------------------------------------------
(* ValueDef::ty and ValueDef::tys.  The arms are tried in source order.    *)

ty_first(d) ==
    IF d.tag = "BlockParam" THEN Some(d.ty)
    ELSE IF d.tag = "Operator" /\ Len(d.tys) = 0 THEN NoneOpt
    ELSE IF d.tag = "Operator" THEN Some(d.tys[1])
    ELSE IF d.tag = "PickOutput" THEN Some(d.ty)
    ELSE IF d.tag = "Placeholder" THEN Some(d.ty)
    ELSE NoneOpt

ty(d) ==
    IF d.tag = "BlockParam" THEN Some(d.ty)
    ELSE IF d.tag = "Operator" /\ Len(d.tys) = 0 THEN NoneOpt
    ELSE IF d.tag = "Operator" /\ Len(d.tys) = 1 THEN Some(d.tys[1])
    ELSE IF d.tag = "PickOutput" THEN Some(d.ty)
    ELSE IF d.tag = "Placeholder" THEN Some(d.ty)
    ELSE IF d.tag = "Trace" THEN NoneOpt
    ELSE NoneOpt

tys_no_placeholder(d) ==
    IF d.tag = "Operator" THEN d.tys
    ELSE IF d.tag \in {"BlockParam", "PickOutput"} THEN <<d.ty>>
    ELSE <<>>

tys(d) ==
    IF d.tag = "Operator" THEN d.tys
    ELSE IF d.tag \in {"BlockParam", "PickOutput", "Placeholder"} THEN <<d.ty>>
    ELSE <<>>

----------------------------------------------------------------------------
(* The closures update_uses is called with: each maps the operand it is    *)
(* shown to the operand it leaves in its place.                            *)

Closures == {"keep", "other", "zero"}

Apply(g, v) ==
    IF g = "keep" THEN v
    ELSE IF g = "other" THEN 1 - v
    ELSE 0

----------------------------------------------------------------------------
(* ValueDef::visit_uses.  The result is whether the call panicked and the  *)
(* values f was called with, in call order.                                *)

RECURSIVE VisitArgs(_, _, _)
\* for &arg in args { f(arg); }
VisitArgs(args, i, calls) ==
    IF i > Len(args) THEN calls
    ELSE VisitArgs(args, i + 1, Append(calls, args[i]))

RECURSIVE VisitArgsRev(_, _, _)
VisitArgsRev(args, i, calls) ==
    IF i < 1 THEN calls
    ELSE VisitArgsRev(args, i - 1, Append(calls, args[i]))

visit_uses_rev(d) ==
    IF d.tag = "BlockParam" THEN [panicked |-> FALSE, calls |-> <<>>]
    ELSE IF d.tag = "Operator"
        THEN [panicked |-> FALSE, calls |-> VisitArgsRev(d.args, Len(d.args), <<>>)]
    ELSE IF d.tag = "PickOutput" THEN [panicked |-> FALSE, calls |-> <<d.from>>]
    ELSE IF d.tag = "Alias" THEN [panicked |-> FALSE, calls |-> <<d.value>>]
    ELSE IF d.tag = "Placeholder" THEN [panicked |-> FALSE, calls |-> <<>>]
    ELSE IF d.tag = "Trace"
        THEN [panicked |-> FALSE, calls |-> VisitArgsRev(d.args, Len(d.args), <<>>)]
    ELSE [panicked |-> TRUE, calls |-> <<>>]

visit_uses_none_ok(d) ==
    IF d.tag = "BlockParam" THEN [panicked |-> FALSE, calls |-> <<>>]
    ELSE IF d.tag = "Operator"
        THEN [panicked |-> FALSE, calls |-> VisitArgs(d.args, 1, <<>>)]
    ELSE IF d.tag = "PickOutput" THEN [panicked |-> FALSE, calls |-> <<d.from>>]
    ELSE IF d.tag = "Alias" THEN [panicked |-> FALSE, calls |-> <<d.value>>]
    ELSE IF d.tag = "Placeholder" THEN [panicked |-> FALSE, calls |-> <<>>]
    ELSE IF d.tag = "Trace"
        THEN [panicked |-> FALSE, calls |-> VisitArgs(d.args, 1, <<>>)]
    ELSE [panicked |-> FALSE, calls |-> <<>>]

visit_uses(d) ==
    IF d.tag = "BlockParam" THEN [panicked |-> FALSE, calls |-> <<>>]
    ELSE IF d.tag = "Operator"
        THEN [panicked |-> FALSE, calls |-> VisitArgs(d.args, 1, <<>>)]
    ELSE IF d.tag = "PickOutput" THEN [panicked |-> FALSE, calls |-> <<d.from>>]
    ELSE IF d.tag = "Alias" THEN [panicked |-> FALSE, calls |-> <<d.value>>]
    ELSE IF d.tag = "Placeholder" THEN [panicked |-> FALSE, calls |-> <<>>]
    ELSE IF d.tag = "Trace"
        THEN [panicked |-> FALSE, calls |-> VisitArgs(d.args, 1, <<>>)]
    ELSE [panicked |-> TRUE, calls |-> <<>>]

----------------------------------------------------------------------------
(* ValueDef::update_uses.  The result is whether the call panicked, the    *)
(* values the closure was shown (each read before the closure writes), in  *)
(* call order, and the definition the call leaves behind.                  *)

RECURSIVE UpdateArgs(_, _, _, _)
\* for arg in args { f(arg); }
UpdateArgs(args, i, g, calls) ==
    IF i > Len(args) THEN [args |-> args, calls |-> calls]
    ELSE UpdateArgs([args EXCEPT ![i] = Apply(g, args[i])], i + 1, g,
                    Append(calls, args[i]))

update_uses_skip_trace(d, g) ==
    IF d.tag = "BlockParam" THEN [panicked |-> FALSE, calls |-> <<>>, def |-> d]
    ELSE IF d.tag = "Operator" THEN
        LET r == UpdateArgs(d.args, 1, g, <<>>)
        IN  [panicked |-> FALSE, calls |-> r.calls,
             def |-> [d EXCEPT !.args = r.args]]
    ELSE IF d.tag = "PickOutput" THEN
        [panicked |-> FALSE, calls |-> <<d.from>>,
         def |-> [d EXCEPT !.from = Apply(g, d.from)]]
    ELSE IF d.tag = "Alias" THEN
        [panicked |-> FALSE, calls |-> <<d.value>>,
         def |-> [d EXCEPT !.value = Apply(g, d.value)]]
    ELSE IF d.tag = "Placeholder" THEN [panicked |-> FALSE, calls |-> <<>>, def |-> d]
    ELSE IF d.tag = "Trace" THEN [panicked |-> FALSE, calls |-> <<>>, def |-> d]
    ELSE [panicked |-> TRUE, calls |-> <<>>, def |-> d]

update_uses(d, g) ==
    IF d.tag = "BlockParam" THEN [panicked |-> FALSE, calls |-> <<>>, def |-> d]
    ELSE IF d.tag = "Operator" THEN
        LET r == UpdateArgs(d.args, 1, g, <<>>)
        IN  [panicked |-> FALSE, calls |-> r.calls,
             def |-> [d EXCEPT !.args = r.args]]
    ELSE IF d.tag = "PickOutput" THEN
        [panicked |-> FALSE, calls |-> <<d.from>>,
         def |-> [d EXCEPT !.from = Apply(g, d.from)]]
    ELSE IF d.tag = "Alias" THEN
        [panicked |-> FALSE, calls |-> <<d.value>>,
         def |-> [d EXCEPT !.value = Apply(g, d.value)]]
    ELSE IF d.tag = "Placeholder" THEN [panicked |-> FALSE, calls |-> <<>>, def |-> d]
    ELSE IF d.tag = "Trace" THEN
        LET r == UpdateArgs(d.args, 1, g, <<>>)
        IN  [panicked |-> FALSE, calls |-> r.calls,
             def |-> [d EXCEPT !.args = r.args]]
    ELSE [panicked |-> TRUE, calls |-> <<>>, def |-> d]

----------------------------------------------------------------------------
(* SpecValue: calls on one value definition.                               *)

\* One finished call: the function, the definition it was called on, the
\* closure calls it made, what it returned (ty, tys) or left behind
\* (update_uses), and whether it panicked.
Call(f, on, calls, ret, panicked) ==
    [fn |-> f, on |-> on, calls |-> calls, ret |-> ret, panicked |-> panicked]

CanCall == ~aborted /\ Len(log) < MaxCalls

ValueIdle == def = DefNone /\ clo = "keep" /\ log = <<>> /\ aborted = FALSE

FuncIdle == fbd = <<>> /\ fpc = "idle" /\ fblk = 0 /\ fout = <<>>

ModuleIdle == md = <<>> /\ dumps = <<>> /\ lastOrder = <<>> /\ reordered = FALSE

DriverIdle ==
    opts = <<>> /\ env = <<>> /\ dpc = "idle" /\ dmod = <<>> /\ trace = <<>>

ValueInit ==
    /\ def \in ValueDefs
    /\ clo \in Closures
    /\ log = <<>>
    /\ aborted = FALSE
    /\ FuncIdle
    /\ ModuleIdle
    /\ DriverIdle

CallTy ==
    /\ CanCall
    /\ log' = Append(log, Call("ty", def, <<>>, ty(def), FALSE))
    /\ UNCHANGED <<def, clo, aborted, funcVars, moduleVars, driverVars>>

CallTys ==
    /\ CanCall
    /\ log' = Append(log, Call("tys", def, <<>>, tys(def), FALSE))
    /\ UNCHANGED <<def, clo, aborted, funcVars, moduleVars, driverVars>>

CallVisitUses ==
    /\ CanCall
    /\ LET r == visit_uses(def)
       IN  /\ log' = Append(log, Call("visit_uses", def, r.calls, def, r.panicked))
           /\ aborted' = r.panicked
    /\ UNCHANGED <<def, clo, funcVars, moduleVars, driverVars>>

CallUpdateUses ==
    /\ CanCall
    /\ LET r == update_uses(def, clo)
       IN  /\ log' = Append(log, Call("update_uses", def, r.calls, r.def, r.panicked))
           /\ def' = r.def
           /\ aborted' = r.panicked
    /\ UNCHANGED <<clo, funcVars, moduleVars, driverVars>>

ValueNext == CallTy \/ CallTys \/ CallVisitUses \/ CallUpdateUses

SpecValue == ValueInit /\ [][ValueNext]_vars

----------------------------------------------------------------------------
(* Text.  Display of the entity handles and of the terminators is          *)
(* implemented outside display.rs: a handle prints as its kind prefix and  *)
(* its index.                                                              *)

RECURSIVE Join(_, _)
\* strs.join(sep)
Join(strs, sep) ==
    IF Len(strs) = 0 THEN ""
    ELSE IF Len(strs) = 1 THEN strs[1]
    ELSE strs[1] \o sep \o Join(Tail(strs), sep)

ShowValue(v) == "v" \o ToString(v)

ShowBlock(b) == "block" \o ToString(b)

ShowLocal(l) == "local" \o ToString(l)

ShowSourceLoc(l) == "loc" \o ToString(l)

ShowFunc(f) == "func" \o ToString(f)

ShowSignature(s) == "sig" \o ToString(s)

ShowTerminator(t) ==
    IF t.kind = "br" THEN "br " \o ShowBlock(t.target) \o "()" ELSE "return"

\* SourceLoc::invalid(), the reserved sentinel.
SourceLocInvalid == -1

----------------------------------------------------------------------------
(* What fmt writes.  A Line is one write!/writeln! of the printer; a Hook  *)
(* is one invocation of a PrintDecorator method, which may write text of   *)
(* its own at that place.  ent is the value or block the event is about    *)
(* (-1 when there is none).                                                *)

Line(kind, ent, text) == [ev |-> "line", kind |-> kind, ent |-> ent, text |-> text]

Hook(name, ent, dec) == [ev |-> "hook", kind |-> name, ent |-> ent, text |-> dec]

\* if let Some(decorator) = self.decorator { decorator.<name>(.., f)?; }
Decorate(d, name, ent) ==
    IF d.decorator = NoneOpt THEN <<>> ELSE <<Hook(name, ent, d.decorator[1])>>

\* The handles of an entity pool of n entries, in the order entries() yields.
Entries(n) == [i \in 1..n |-> i - 1]

EntriesRev(n) == [i \in 1..n |-> n - i]

\* self.body.values.entries()
ValueEntries(body) == Entries(Len(body.values))

\* self.body.blocks.entries()
BlockEntries(body) == Entries(Len(body.blocks))

Min(a, b) == IF a < b THEN a ELSE b

----------------------------------------------------------------------------
(* FunctionBodyDisplay::fmt, lines 68-91: the header line and the          *)
(* before_function_body hook.                                              *)

FmtFunctionHeader(d) ==
    LET arg_tys == SubSeq(d.body.locals, 1, Min(d.body.n_params, Len(d.body.locals)))
        ret_tys == d.body.rets
    IN  <<Line("function", -1,
               d.indent \o "function(" \o Join(arg_tys, ", ") \o ") -> "
                        \o Join(ret_tys, ", ") \o " {")>>
        \o Decorate(d, "before_function_body", -1)

(* Lines 93-133: the pass over the value pool.                             *)

FmtValueDef(d, value) ==
    LET value_def == d.body.values[value + 1]
        pre == d.indent \o "    " \o ShowValue(value) \o " = "
    IN  IF value_def.tag = "Operator" /\ d.verbose THEN
            <<Line("valdef", value,
                   pre \o value_def.op \o " "
                       \o Join([i \in 1..Len(d.body.arg_pool[value_def.args + 1]) |->
                                   ShowValue(d.body.arg_pool[value_def.args + 1][i])], ", ")
                       \o " # " \o Join(d.body.type_pool[value_def.tys + 1], ", ") \o " ")>>
        ELSE IF value_def.tag = "BlockParam" /\ d.verbose THEN
            <<Line("valdef", value,
                   pre \o "blockparam " \o ShowBlock(value_def.block) \o ", "
                       \o ToString(value_def.idx) \o " # " \o value_def.ty)>>
        ELSE IF value_def.tag = "Alias" THEN
            IF d.verbose
                THEN <<Line("valdef", value, pre \o ShowValue(value_def.value))>>
                ELSE <<>>
        ELSE IF value_def.tag = "PickOutput" THEN
            <<Line("valdef", value,
                   pre \o ShowValue(value_def.from) \o "." \o ToString(value_def.idx)
                       \o " # " \o value_def.ty)>>
        ELSE IF value_def.tag = "Placeholder" THEN
            <<Line("valdef", value, pre \o "placeholder # " \o value_def.ty)>>
        ELSE IF value_def.tag = "None" THEN
            <<Line("valdef", value, pre \o "none")>>
        ELSE <<>>

RECURSIVE FmtValueDefs(_, _, _)
\* for (value, value_def) in self.body.values.entries() { ... }
FmtValueDefs(d, entries, i) ==
    IF i > Len(entries) THEN <<>>
    ELSE FmtValueDef(d, entries[i]) \o FmtValueDefs(d, entries, i + 1)

(* Lines 136-180: the head of one block.                                   *)

RECURSIVE FmtParamLocals(_, _, _)
\* for (_, param) in &block.params { if let Some(local) = ... }
FmtParamLocals(d, params, i) ==
    IF i > Len(params) THEN <<>>
    ELSE LET param == params[i][2]
             local == d.body.value_locals[param + 1]
         IN  (IF local # NoneOpt
                  THEN <<Line("local", param,
                              d.indent \o "    # " \o ShowValue(param) \o ": "
                                       \o ShowLocal(local[1]))>>
                  ELSE <<>>)
             \o FmtParamLocals(d, params, i + 1)

FmtBlockHead(d, block_id) ==
    LET block == d.body.blocks[block_id + 1]
        block_params == [i \in 1..Len(block.params) |->
                            ShowValue(block.params[i][2]) \o ": " \o block.params[i][1]]
        edge(b) == ShowBlock(b) \o " (" \o d.body.blocks[b + 1].desc \o ")"
    IN  <<Line("block", block_id,
               d.indent \o "  " \o ShowBlock(block_id) \o "("
                        \o Join(block_params, ", ") \o "): # " \o block.desc)>>
        \o Decorate(d, "before_block", block_id)
        \o <<Line("preds", block_id,
                  d.indent \o "    # preds: "
                           \o Join([i \in 1..Len(block.preds) |-> edge(block.preds[i])], ", ")),
             Line("succs", block_id,
                  d.indent \o "    # succs: "
                           \o Join([i \in 1..Len(block.succs) |-> edge(block.succs[i])], ", "))>>
        \o FmtParamLocals(d, block.params, 1)

(* Lines 181-229: one instruction.  An instruction defined as anything but  *)
(* an Operator, a PickOutput or an Alias hits unreachable!(), after its    *)
(* local comment has been written.                                         *)

InstPanicsTraceOk(d, inst) ==
    d.body.values[inst + 1].tag \notin {"Operator", "PickOutput", "Alias", "Trace"}

\* _ => unreachable!()
InstPanics(d, inst) ==
    d.body.values[inst + 1].tag \notin {"Operator", "PickOutput", "Alias"}

\* if let Some(local) = self.body.value_locals[inst] { ... }
FmtInstLocal(d, inst) ==
    IF d.body.value_locals[inst + 1] # NoneOpt
        THEN <<Line("local", inst,
                    d.indent \o "    # " \o ShowValue(inst) \o ": "
                             \o ShowLocal(d.body.value_locals[inst + 1][1]))>>
        ELSE <<>>

\* The source location of an Operator instruction, lines 195-205.
FmtInstLoc(d, inst) ==
    IF d.body.source_locs[inst + 1] # SourceLocInvalid /\ d.module # NoneOpt
        THEN LET module == d.module[1]
                 l == d.body.source_locs[inst + 1]
                 data == module.debug.source_locs[l + 1]
                 filename == module.debug.source_files[data.file + 1]
             IN  "@" \o ShowSourceLoc(l) \o " " \o filename \o ":"
                     \o ToString(data.line) \o ":" \o ToString(data.col)
        ELSE ""

FmtInst(d, inst) ==
    LET value_def == d.body.values[inst + 1]
        pre == d.indent \o "    " \o ShowValue(inst) \o " = "
    IN  FmtInstLocal(d, inst)
        \o (IF value_def.tag = "Operator" THEN
                LET args == [i \in 1..Len(d.body.arg_pool[value_def.args + 1]) |->
                                ShowValue(d.body.arg_pool[value_def.args + 1][i])]
                    ty_strs == d.body.type_pool[value_def.tys + 1]
                IN  <<Line("inst", inst,
                           pre \o value_def.op \o " " \o Join(args, ", ")
                               \o " # " \o Join(ty_strs, ", ") \o " "
                               \o FmtInstLoc(d, inst) \o " ")>>
                    \o Decorate(d, "after_inst", inst)
                    \o <<Line("eol", inst, "")>>
            ELSE IF value_def.tag = "PickOutput" THEN
                <<Line("inst", inst,
                       pre \o ShowValue(value_def.from) \o "."
                           \o ToString(value_def.idx) \o " # " \o value_def.ty)>>
            ELSE IF value_def.tag = "Alias" THEN
                <<Line("inst", inst, pre \o ShowValue(value_def.value))>>
            ELSE <<>>)

RECURSIVE FmtInsts(_, _, _)
\* for &inst in &block.insts { ... }: it ends at the first instruction that
\* panics.
FmtInsts(d, insts, i) ==
    IF i > Len(insts) THEN <<>>
    ELSE FmtInst(d, insts[i])
         \o (IF InstPanics(d, insts[i]) THEN <<>> ELSE FmtInsts(d, insts, i + 1))

\* Whether printing the block hits unreachable!().
BlockPanics(d, block_id) ==
    \E i \in 1..Len(d.body.blocks[block_id + 1].insts) :
        InstPanics(d, d.body.blocks[block_id + 1].insts[i])

(* Lines 230-233: the after_block hook and the terminator.                 *)

FmtBlockTail(d, block_id) ==
    Decorate(d, "after_block", block_id)
    \o <<Line("terminator", block_id,
              d.indent \o "    " \o ShowTerminator(d.body.blocks[block_id + 1].terminator))>>

(* Lines 135-234: one turn of the loop over the blocks.                    *)

FmtOneBlockTerminatorFirst(d, block_id) ==
    FmtBlockHead(d, block_id)
    \o (IF BlockPanics(d, block_id) THEN <<>> ELSE FmtBlockTail(d, block_id))
    \o FmtInsts(d, d.body.blocks[block_id + 1].insts, 1)

FmtOneBlock(d, block_id) ==
    FmtBlockHead(d, block_id)
    \o FmtInsts(d, d.body.blocks[block_id + 1].insts, 1)
    \o (IF BlockPanics(d, block_id) THEN <<>> ELSE FmtBlockTail(d, block_id))

(* Lines 236-241: the after_function_body hook and the closing brace.      *)

FmtFunctionEnd(d) ==
    Decorate(d, "after_function_body", -1) \o <<Line("close", -1, d.indent \o "}")>>

RECURSIVE FmtBlocks(_, _, _)
\* for (block_id, block) in self.body.blocks.entries() { ... }: it ends at
\* the first block that panics.
FmtBlocks(d, entries, i) ==
    IF i > Len(entries) THEN <<>>
    ELSE FmtOneBlock(d, entries[i])
         \o (IF BlockPanics(d, entries[i]) THEN <<>> ELSE FmtBlocks(d, entries, i + 1))

\* Whether printing the body hits unreachable!().
BodyPanics(d) ==
    \E i \in 1..Len(d.body.blocks) : BlockPanics(d, BlockEntries(d.body)[i])

\* The whole of FunctionBodyDisplay::fmt, for a caller that formats a body
\* within its own output.
FunctionBodyDisplayFmt(d) ==
    FmtFunctionHeader(d)
    \o FmtValueDefs(d, ValueEntries(d.body), 1)
    \o FmtBlocks(d, BlockEntries(d.body), 1)
    \o (IF BodyPanics(d) THEN <<>> ELSE FmtFunctionEnd(d))

----------------------------------------------------------------------------
(* The function bodies the printer is given.                               *)

\* arg_pool and type_pool: interned operand and type lists, by handle.
ArgPool == << <<>>, <<0, 1>> >>

TypePool == << <<>>, <<"i32">> >>

\* One definition of each variant, as the value pool of a body holds them.
PoolDefs ==
    {BlockParam(0, 0, "i32"), Operator("i32add", 1, 1), PickOutput(0, 1, "i32"),
     Alias(0), Placeholder("i32"), Trace(0, 1), DefNone}

NumBlocks == Cardinality(BlockIds)

\* The terminators: "fwd" branches from each block to the next and returns
\* from the last; "back" branches from every block to the entry block.
TermPatterns == {"fwd", "back"}

TerminatorOf(pat, b) ==
    IF pat = "fwd"
        THEN IF b + 1 < NumBlocks THEN [kind |-> "br", target |-> b + 1]
             ELSE [kind |-> "return"]
        ELSE [kind |-> "br", target |-> 0]

Targets(t) == IF t.kind = "br" THEN <<t.target>> ELSE <<>>

\* A body over the value definitions vals: value v is an instruction of
\* block home[v] - 1 (of none when home[v] = 0), the instructions of a block
\* are in ascending or descending handle order, the BlockParam values of a
\* block are its parameters, and preds and succs mirror the terminators.
\* An annotated body has a local and a source location for every value.
MakeBody(vals, home, descending, pat, annotated) ==
    LET n == Len(vals)
        order == IF descending THEN EntriesRev(n) ELSE Entries(n)
        all == Entries(n)
        InstOf(b, v) == home[v + 1] = b + 1
        ParamOf(b, v) == vals[v + 1].tag = "BlockParam" /\ vals[v + 1].block = b
        params(b) == LET ps == SelectSeq(all, LAMBDA v : ParamOf(b, v))
                     IN  [i \in 1..Len(ps) |-> <<vals[ps[i] + 1].ty, ps[i]>>]
        blocks == Entries(NumBlocks)
    IN  [n_params |-> 1,
         locals |-> <<"i32", "i64">>,
         rets |-> <<"i32">>,
         values |-> vals,
         arg_pool |-> ArgPool,
         type_pool |-> TypePool,
         blocks |-> [i \in 1..NumBlocks |->
                        [params |-> params(i - 1),
                         insts |-> SelectSeq(order, LAMBDA v : InstOf(i - 1, v)),
                         terminator |-> TerminatorOf(pat, i - 1),
                         preds |-> SelectSeq(blocks,
                                       LAMBDA p : Targets(TerminatorOf(pat, p)) = <<i - 1>>),
                         succs |-> Targets(TerminatorOf(pat, i - 1)),
                         desc |-> IF i = 1 THEN "entry" ELSE "b"]],
         value_locals |-> [i \in 1..n |-> IF annotated THEN Some(0) ELSE NoneOpt],
         source_locs |-> [i \in 1..n |-> IF annotated THEN 0 ELSE SourceLocInvalid]]

\* The debug tables of the module a body is printed with.
DebugTables ==
    [source_locs |-> <<[file |-> 0, line |-> 3, col |-> 7]>>,
     source_files |-> <<"a.c">>]

Decorators == {"decA"}

----------------------------------------------------------------------------
(* SpecFunc: FunctionBodyDisplay::fmt on one body.                         *)

FuncInit ==
    /\ \E n \in 1..MaxValues :
         \E vals \in [1..n -> PoolDefs], home \in [1..n -> 0..NumBlocks],
            descending \in BOOLEAN, pat \in TermPatterns,
            annotated \in BOOLEAN, verbose \in BOOLEAN,
            module \in {NoneOpt, Some([debug |-> DebugTables])},
            decorator \in {NoneOpt} \cup {Some(x) : x \in Decorators} :
                fbd = [body |-> MakeBody(vals, home, descending, pat, annotated),
                       indent |-> "",
                       verbose |-> verbose,
                       module |-> module,
                       decorator |-> decorator]
    /\ fpc = "begin"
    /\ fblk = 0
    /\ fout = <<>>
    /\ ValueIdle
    /\ ModuleIdle
    /\ DriverIdle

\* Lines 68-133: the header, before_function_body, the value definitions.
FmtBegin ==
    /\ fpc = "begin"
    /\ fout' = FmtFunctionHeader(fbd) \o FmtValueDefs(fbd, ValueEntries(fbd.body), 1)
    /\ fpc' = "blocks"
    /\ UNCHANGED <<fbd, fblk, valueVars, moduleVars, driverVars>>

\* Lines 135-234: the next block; unreachable!() ends the formatting.
FmtBlock ==
    /\ fpc = "blocks"
    /\ fblk < Len(BlockEntries(fbd.body))
    /\ fout' = fout \o FmtOneBlock(fbd, BlockEntries(fbd.body)[fblk + 1])
    /\ IF BlockPanics(fbd, BlockEntries(fbd.body)[fblk + 1])
           THEN fpc' = "panicked" /\ fblk' = fblk
           ELSE fpc' = "blocks" /\ fblk' = fblk + 1
    /\ UNCHANGED <<fbd, valueVars, moduleVars, driverVars>>

\* Lines 236-241: after_function_body and the closing brace.
FmtEnd ==
    /\ fpc = "blocks"
    /\ fblk = Len(BlockEntries(fbd.body))
    /\ fout' = fout \o FmtFunctionEnd(fbd)
    /\ fpc' = "done"
    /\ UNCHANGED <<fbd, fblk, valueVars, moduleVars, driverVars>>

FuncNext == FmtBegin \/ FmtBlock \/ FmtEnd

SpecFunc == FuncInit /\ [][FuncNext]_vars

----------------------------------------------------------------------------
(* ModuleDisplay::fmt.                                                     *)

\* FunctionBody::display(indent, module): the non-verbose display without a
\* decorator.
display(body, indent, module) ==
    [body |-> body, indent |-> indent, verbose |-> FALSE, module |-> module,
     decorator |-> NoneOpt]

\* Lines 258-268: the text of one signature.
SigStr(sig_data) ==
    Join(sig_data.params, ", ") \o " -> " \o Join(sig_data.returns, ", ")

\* Lines 256-271: sig_strs, a HashMap filled with one entry per signature.
\* content is what each key maps to; order is the order in which iterating
\* the map would yield its keys, which the map's hasher decides.
SigStrs(module, order) ==
    [content |-> [i \in 1..Len(module.signatures) |-> SigStr(module.signatures[i])],
     order |-> order]

SigStrsNth(sig_strs, sig) == sig_strs.content[sig_strs.order[sig + 1] + 1]

\* sig_strs.get(&sig).unwrap()
SigStrsGet(sig_strs, sig) == sig_strs.content[sig + 1]

\* Lines 252-271: the opening line, the start function, the signatures.
FmtModuleHead(module) ==
    <<Line("module", -1, "module {")>>
    \o (IF module.start_func # NoneOpt
            THEN <<Line("start", module.start_func[1],
                        "    start = " \o ShowFunc(module.start_func[1]))>>
            ELSE <<>>)
    \o [i \in 1..Len(module.signatures) |->
           Line("sig", i - 1,
                "  " \o ShowSignature(i - 1) \o ": " \o SigStr(module.signatures[i]))]

RECURSIVE FmtTables(_, _)
\* Lines 279-286: the tables, each with its function elements.
FmtTables(tables, i) ==
    IF i > Len(tables) THEN <<>>
    ELSE LET table == "table" \o ToString(i - 1)
             funcs == tables[i].func_elements
         IN  <<Line("table", i - 1, "  " \o table \o ": " \o tables[i].ty)>>
             \o (IF funcs # NoneOpt
                     THEN [k \in 1..Len(funcs[1]) |->
                              Line("elem", i - 1,
                                   "    " \o table \o "[" \o ToString(k - 1) \o "]: "
                                          \o ShowFunc(funcs[1][k]))]
                     ELSE <<>>)
             \o FmtTables(tables, i + 1)

RECURSIVE FmtMemories(_, _)
\* Lines 287-302: the memories, each with its segments.
FmtMemories(memories, i) ==
    IF i > Len(memories) THEN <<>>
    ELSE LET memory == "memory" \o ToString(i - 1)
         IN  <<Line("memory", i - 1,
                    "  " \o memory \o ": initial " \o ToString(memories[i].initial_pages)
                         \o " max " \o ToString(memories[i].maximum_pages))>>
             \o [k \in 1..Len(memories[i].segments) |->
                    Line("segment", i - 1,
                         "    " \o memory \o " offset "
                                \o ToString(memories[i].segments[k].offset) \o ": # "
                                \o ToString(memories[i].segments[k].len) \o " bytes")]
             \o FmtMemories(memories, i + 1)

\* Lines 272-312: globals, tables, memories, imports, exports.
FmtModuleTables(module) ==
    [i \in 1..Len(module.globals) |->
        Line("global", i - 1,
             "  global" \o ToString(i - 1) \o ": " \o ToString(module.globals[i].value)
                        \o " # " \o module.globals[i].ty)]
    \o FmtTables(module.tables, 1)
    \o FmtMemories(module.memories, 1)
    \o [i \in 1..Len(module.imports) |->
           Line("import", i - 1,
                "  import \"" \o module.imports[i].module \o "\".\""
                              \o module.imports[i].name \o "\": " \o module.imports[i].kind)]
    \o [i \in 1..Len(module.exports) |->
           Line("export", i - 1,
                "  export \"" \o module.exports[i].name \o "\": " \o module.exports[i].kind)]

\* Whether printing function func hits the unreachable!() of the body
\* printer.
FuncDeclPanics(m, func) ==
    /\ m.module.funcs[func + 1].tag = "Body"
    /\ BodyPanics(display(m.module.funcs[func + 1].body, "    ", Some(m.module)))

\* Lines 314-361: one function.
FmtFuncDecl(m, sig_strs, func) ==
    LET func_decl == m.module.funcs[func + 1]
        head(eq) == "  " \o ShowFunc(func) \o " \"" \o func_decl.name \o "\": "
                         \o ShowSignature(func_decl.sig) \o eq
                         \o SigStrsGet(sig_strs, func_decl.sig)
    IN  IF func_decl.tag = "Body" THEN
            <<Line("func", func, head(" = # "))>>
            \o FunctionBodyDisplayFmt(display(func_decl.body, "    ", Some(m.module)))
            \o (IF FuncDeclPanics(m, func) THEN <<>> ELSE <<Line("blank", func, "")>>)
        ELSE IF func_decl.tag = "Lazy" THEN
            <<Line("func", func, head(" = # ")),
              Line("raw", func, "  # raw bytes (length " \o ToString(func_decl.len) \o ")")>>
        ELSE IF func_decl.tag = "Compiled" THEN
            <<Line("func", func, head(" = # ")),
              Line("compiled", func, "  # already compiled")>>
        ELSE IF func_decl.tag = "Import" THEN
            <<Line("func", func, head(" # "))>>
        ELSE <<Line("func", func, "  " \o ShowFunc(func) \o ": none")>>

RECURSIVE FmtFuncDecls(_, _, _)
\* for (func, func_decl) in self.module.funcs.entries() { ... }
FmtFuncDecls(m, sig_strs, func) ==
    IF func >= Len(m.module.funcs) THEN <<>>
    ELSE FmtFuncDecl(m, sig_strs, func)
         \o (IF FuncDeclPanics(m, func) THEN <<>>
             ELSE FmtFuncDecls(m, sig_strs, func + 1))

\* Whether the module dump hits unreachable!().
ModulePanics(m) ==
    \E f \in 1..Len(m.module.funcs) : FuncDeclPanics(m, f - 1)

\* Lines 363-374: the debug tables and the closing brace.
FmtModuleEnd(module) ==
    [i \in 1..Len(module.debug.source_locs) |->
        Line("debugloc", i - 1,
             "  " \o ShowSourceLoc(i - 1) \o " = file"
                  \o ToString(module.debug.source_locs[i].file)
                  \o " line " \o ToString(module.debug.source_locs[i].line)
                  \o " column " \o ToString(module.debug.source_locs[i].col))]
    \o [i \in 1..Len(module.debug.source_files) |->
           Line("debugfile", i - 1,
                "  file" \o ToString(i - 1) \o " = \"" \o module.debug.source_files[i] \o "\"")]
    \o <<Line("close_module", -1, "}")>>

\* The whole of ModuleDisplay::fmt, with the map's iteration order: what was
\* written, and whether the run panicked.
ModuleDisplayFmt(m, order) ==
    [out |-> FmtModuleHead(m.module)
             \o FmtModuleTables(m.module)
             \o FmtFuncDecls(m, SigStrs(m.module, order), 0)
             \o (IF ModulePanics(m) THEN <<>> ELSE FmtModuleEnd(m.module)),
     panicked |-> ModulePanics(m)]

----------------------------------------------------------------------------
(* The modules the printer is given.                                       *)

\* Signature k: k parameters, and one result when k is odd.
SignatureData(k) ==
    [params |-> [i \in 1..k |-> IF i % 2 = 1 THEN "i32" ELSE "i64"],
     returns |-> IF k % 2 = 1 THEN <<"i32">> ELSE <<>>]

\* Bodies of one value: an Operator, a PickOutput or a Placeholder as the
\* instruction of the entry block.
ModuleBodies(annotated) ==
    {MakeBody(<<v>>, <<1>>, FALSE, "fwd", annotated) :
        v \in {Operator("i32add", 1, 1), PickOutput(0, 1, "i32"), Placeholder("i32")}}

\* The declarations function f can have in a module of nsigs signatures.
FuncDecls(f, nsigs, annotated) ==
    LET sig == f % nsigs
    IN  {[tag |-> t, sig |-> sig, name |-> "f"] : t \in {"Import", "Compiled"}}
        \cup {[tag |-> "Lazy", sig |-> sig, name |-> "f", len |-> 4]}
        \cup {[tag |-> "Body", sig |-> sig, name |-> "f", body |-> b] :
                 b \in ModuleBodies(annotated)}
        \cup {[tag |-> "None"]}

\* With aux the module has a start function, one global, table, memory,
\* import and export, and the debug tables; without, it has none of them.
MakeModule(nsigs, funcs, aux) ==
    [start_func |-> IF aux THEN Some(0) ELSE NoneOpt,
     signatures |-> [i \in 1..nsigs |-> SignatureData(i - 1)],
     globals |-> IF aux THEN <<[value |-> 0, ty |-> "i32"]>> ELSE <<>>,
     tables |-> IF aux THEN <<[ty |-> "funcref", func_elements |-> Some(<<0>>)]>> ELSE <<>>,
     memories |-> IF aux
                  THEN <<[initial_pages |-> 1, maximum_pages |-> NoneOpt,
                          segments |-> <<[offset |-> 0, len |-> 4]>>]>>
                  ELSE <<>>,
     imports |-> IF aux THEN <<[module |-> "env", name |-> "g", kind |-> "func0"]>> ELSE <<>>,
     exports |-> IF aux THEN <<[name |-> "f", kind |-> "func0"]>> ELSE <<>>,
     funcs |-> funcs,
     debug |-> IF aux THEN DebugTables ELSE [source_locs |-> <<>>, source_files |-> <<>>]]

\* The decorator registered under each function.
DecoratorOf(f) == "dec" \o ToString(f)

IterationOrders(n) ==
    {p \in [1..n -> 0..(n - 1)] : \A i, j \in 1..n : p[i] = p[j] => i = j}

----------------------------------------------------------------------------
(* SpecModule: ModuleDisplay::fmt, run repeatedly on one module.           *)

ModuleInit ==
    /\ \E nsigs \in 1..MaxSigs, nfuncs \in 1..MaxFuncs, aux \in BOOLEAN :
         \E funcs \in [1..nfuncs -> UNION {FuncDecls(f, nsigs, aux) : f \in 0..(nfuncs - 1)}],
            withDecorators \in BOOLEAN :
                /\ \A f \in 1..nfuncs : funcs[f] \in FuncDecls(f - 1, nsigs, aux)
                /\ md = [module |-> MakeModule(nsigs, funcs, aux),
                         decorators |->
                             IF withDecorators
                                 THEN Some([f \in 0..(nfuncs - 1) |-> DecoratorOf(f)])
                                 ELSE NoneOpt]
    /\ dumps = <<>>
    /\ lastOrder = <<>>
    /\ reordered = FALSE
    /\ ValueIdle
    /\ FuncIdle
    /\ DriverIdle

\* One run of fmt: a fresh sig_strs map, whose iteration order is any.
ModuleFmt ==
    /\ Len(dumps) < MaxRuns
    /\ \E order \in IterationOrders(Len(md.module.signatures)) :
           /\ dumps' = Append(dumps, ModuleDisplayFmt(md, order))
           /\ lastOrder' = order
           /\ reordered' = (reordered \/ (dumps # <<>> /\ order # lastOrder))
    /\ UNCHANGED <<md, valueVars, funcVars, driverVars>>

ModuleNext == ModuleFmt

SpecModule == ModuleInit /\ [][ModuleNext]_vars

----------------------------------------------------------------------------
(* waffle-util's main.  The decoder, the expansion of the lazy bodies, the *)
(* passes and the encoder are library code: a function of the module is    *)
(* kept as its state (Import, Lazy or Body), whether its body bytes are    *)
(* malformed, and the passes applied to its body so far.                   *)

\* One call main makes: func is the function it is about (-1 for none).
Ev(op, func, ok) == [op |-> op, func |-> func, ok |-> ok]

Commands == {"print-ir", "print-func", "roundtrip"}

\* What a function of the input file can be: an import, or a body whose
\* bytes are well formed or malformed.
InputFuncs == {"import", "good", "bad"}

\* Module::from_wasm_bytes: bodies are kept as Lazy byte ranges.
from_wasm_bytes(bytes) ==
    [i \in 1..Len(bytes) |->
        [tag |-> IF bytes[i] = "import" THEN "Import" ELSE "Lazy",
         malformed |-> bytes[i] = "bad",
         applied |-> <<>>]]

RECURSIVE ExpandFrom(_, _)
\* Module::expand_all_funcs from slot i on: every Lazy slot becomes Body,
\* up to the first one whose bytes do not decode, which stays Lazy.
ExpandFrom(funcs, i) ==
    IF i > Len(funcs) THEN [ok |-> TRUE, funcs |-> funcs]
    ELSE IF funcs[i].tag = "Lazy"
        THEN IF funcs[i].malformed
                 THEN [ok |-> FALSE, funcs |-> funcs]
                 ELSE ExpandFrom([funcs EXCEPT ![i].tag = "Body"], i + 1)
        ELSE ExpandFrom(funcs, i + 1)

expand_all_funcs(funcs) == ExpandFrom(funcs, 1)

\* Module::per_func_body(f): f on every function in Body state, in func
\* order; the other functions are skipped.
per_func_body(funcs, f) ==
    [funcs |-> [i \in 1..Len(funcs) |->
                   IF funcs[i].tag = "Body"
                       THEN [funcs[i] EXCEPT !.applied = Append(@, f)]
                       ELSE funcs[i]],
     calls |-> LET bodies == SelectSeq(Entries(Len(funcs)),
                                       LAMBDA x : funcs[x + 1].tag = "Body")
               IN  [k \in 1..Len(bodies) |-> Ev(f, bodies[k], TRUE)]]

apply_options_max_ssa_first(o, funcs) ==
    LET e == expand_all_funcs(funcs)
        a == IF o.max_ssa
                 THEN per_func_body(e.funcs, "convert_to_max_ssa")
                 ELSE [funcs |-> e.funcs, calls |-> <<>>]
        b == IF o.basic_opts
                 THEN per_func_body(a.funcs, "optimize")
                 ELSE [funcs |-> a.funcs, calls |-> <<>>]
    IN  IF ~e.ok
            THEN [ok |-> FALSE, funcs |-> e.funcs,
                  calls |-> <<Ev("expand_all_funcs", -1, FALSE)>>]
            ELSE [ok |-> TRUE, funcs |-> b.funcs,
                  calls |-> <<Ev("expand_all_funcs", -1, TRUE)>> \o a.calls \o b.calls]

\* apply_options, lines 58-67.
apply_options(o, funcs) ==
    LET e == expand_all_funcs(funcs)
        a == IF o.basic_opts
                 THEN per_func_body(e.funcs, "optimize")
                 ELSE [funcs |-> e.funcs, calls |-> <<>>]
        b == IF o.max_ssa
                 THEN per_func_body(a.funcs, "convert_to_max_ssa")
                 ELSE [funcs |-> a.funcs, calls |-> <<>>]
    IN  IF ~e.ok
            THEN [ok |-> FALSE, funcs |-> e.funcs,
                  calls |-> <<Ev("expand_all_funcs", -1, FALSE)>>]
            ELSE [ok |-> TRUE, funcs |-> b.funcs,
                  calls |-> <<Ev("expand_all_funcs", -1, TRUE)>> \o a.calls \o b.calls]

----------------------------------------------------------------------------
(* SpecDriver: one run of main.                                            *)

DriverInit ==
    /\ opts \in [basic_opts : BOOLEAN, max_ssa : BOOLEAN, command : Commands,
                 func : 0..MaxDriverFuncs]
    /\ env \in [readable : BOOLEAN, wellformed : BOOLEAN,
                bytes : UNION {[1..n -> InputFuncs] : n \in 0..MaxDriverFuncs},
                encodable : BOOLEAN, writable : BOOLEAN]
    /\ dpc = "read"
    /\ dmod = <<>>
    /\ trace = <<>>
    /\ ValueIdle
    /\ FuncIdle
    /\ ModuleIdle

\* Lines 83, 95, 108: std::fs::read(..)?
ReadFile ==
    /\ dpc = "read"
    /\ trace' = Append(trace, Ev("read", -1, env.readable))
    /\ dpc' = IF env.readable THEN "decode" ELSE "exit_err"
    /\ UNCHANGED <<opts, env, dmod, valueVars, funcVars, moduleVars>>

\* Lines 85, 97, 110: Module::from_wasm_bytes(..)?
FromWasmBytes ==
    /\ dpc = "decode"
    /\ trace' = Append(trace, Ev("from_wasm_bytes", -1, env.wellformed))
    /\ IF env.wellformed
           THEN dmod' = from_wasm_bytes(env.bytes) /\ dpc' = "apply"
           ELSE dmod' = dmod /\ dpc' = "exit_err"
    /\ UNCHANGED <<opts, env, valueVars, funcVars, moduleVars>>

\* Lines 86, 98, 111: apply_options(&opts, &mut module)?
ApplyOptions ==
    /\ dpc = "apply"
    /\ trace' = trace \o apply_options(opts, dmod).calls
    /\ dmod' = apply_options(opts, dmod).funcs
    /\ dpc' = IF apply_options(opts, dmod).ok THEN "output" ELSE "exit_err"
    /\ UNCHANGED <<opts, env, valueVars, funcVars, moduleVars>>

\* Lines 87-92: the module dump of print-ir.
PrintIR ==
    /\ dpc = "output"
    /\ opts.command = "print-ir"
    /\ trace' = Append(trace, Ev("println", -1, TRUE))
    /\ dpc' = "exit_ok"
    /\ UNCHANGED <<opts, env, dmod, valueVars, funcVars, moduleVars>>

\* Lines 99-105: the function dump of print-func; indexing funcs out of
\* range and unwrap() on a function without a body panic.
PrintFunc ==
    /\ dpc = "output"
    /\ opts.command = "print-func"
    /\ IF opts.func < Len(dmod) /\ dmod[opts.func + 1].tag = "Body"
           THEN trace' = Append(trace, Ev("println", opts.func, TRUE)) /\ dpc' = "exit_ok"
           ELSE trace' = trace /\ dpc' = "panicked"
    /\ UNCHANGED <<opts, env, dmod, valueVars, funcVars, moduleVars>>

\* Line 112: module.to_wasm_bytes()?
ToWasmBytes ==
    /\ dpc = "output"
    /\ opts.command = "roundtrip"
    /\ trace' = Append(trace, Ev("to_wasm_bytes", -1, env.encodable))
    /\ dpc' = IF env.encodable THEN "write" ELSE "exit_err"
    /\ UNCHANGED <<opts, env, dmod, valueVars, funcVars, moduleVars>>

\* Line 113: std::fs::write(output, ..)?
WriteFile ==
    /\ dpc = "write"
    /\ trace' = Append(trace, Ev("write", -1, env.writable))
    /\ dpc' = IF env.writable THEN "exit_ok" ELSE "exit_err"
    /\ UNCHANGED <<opts, env, dmod, valueVars, funcVars, moduleVars>>

DriverNext ==
    \/ ReadFile
    \/ FromWasmBytes
    \/ ApplyOptions
    \/ PrintIR
    \/ PrintFunc
    \/ ToWasmBytes
    \/ WriteFile

SpecDriver == DriverInit /\ [][DriverNext]_vars

----------------------------------------------------------------------------
(* Claims about value.rs, checked under SpecValue.                         *)

\* The calls of function f in the log.
CallsOf(f) == {k \in 1..Len(log) : log[k].fn = f}

\* The operands of a definition, left to right, as the variants declare them.
OperandsOf(d) ==
    CASE d.tag \in {"Operator", "Trace"} -> d.args
      [] d.tag = "PickOutput" -> <<d.from>>
      [] d.tag = "Alias" -> <<d.value>>
      [] OTHER -> <<>>

\* C1: on every ValueDef other than None, visit_uses calls f exactly once per
\* operand, left to right: args[0..n-1] for Operator and Trace, the single
\* source for PickOutput and Alias, and never for BlockParam and Placeholder.
C1_VisitUsesOncePerOperandInOrder ==
    \A k \in CallsOf("visit_uses") :
        log[k].on.tag # "None" => log[k].calls = OperandsOf(log[k].on)

\* C1 witness: visit_uses has run on an Operator with two different operands
\* and called f with the first, then the second.
C1_Witness ==
    \E k \in CallsOf("visit_uses") :
        /\ log[k].on.tag = "Operator"
        /\ Len(log[k].on.args) = 2
        /\ log[k].on.args[1] # log[k].on.args[2]
        /\ log[k].calls = <<log[k].on.args[1], log[k].on.args[2]>>

\* C2: on every ValueDef other than None, update_uses shows its closure the
\* same operands, in the same number and order, as visit_uses passes to its
\* closure on the same definition; and a visit_uses on the definition that
\* update_uses with closure g left behind yields g(o_0), ..., g(o_{n-1}).
C2_UpdateUsesSamePositionsAsVisitUses ==
    /\ \A i \in CallsOf("visit_uses"), j \in CallsOf("update_uses") :
           (log[i].on = log[j].on /\ log[j].on.tag # "None")
               => log[i].calls = log[j].calls
    /\ \A j \in CallsOf("update_uses"), i \in CallsOf("visit_uses") :
           (j < i /\ log[i].on = log[j].ret /\ log[j].on.tag # "None")
               => log[i].calls =
                      [n \in 1..Len(log[j].calls) |-> Apply(clo, log[j].calls[n])]

\* C2 witness: visit_uses, then update_uses with a closure that replaces
\* operands, then visit_uses again, on a Trace with two different operands.
C2_Witness ==
    /\ Len(log) = 3
    /\ log[1].fn = "visit_uses" /\ log[2].fn = "update_uses" /\ log[3].fn = "visit_uses"
    /\ log[1].on.tag = "Trace"
    /\ Len(log[1].calls) = 2 /\ log[1].calls[1] # log[1].calls[2]
    /\ log[2].calls = log[1].calls
    /\ log[3].calls # log[1].calls

\* C3: ty() is Some(t) exactly for BlockParam(_, _, t), PickOutput(_, _, t),
\* Placeholder(t) and an Operator whose result types are the single [t]; it
\* is None for an Operator with no or with several result types, for Trace,
\* for Alias and for the None variant.
C3_TyIsTheSingleResultType ==
    \A k \in CallsOf("ty") :
        LET d == log[k].on
        IN  /\ d.tag \in {"BlockParam", "PickOutput", "Placeholder"}
                => log[k].ret = Some(d.ty)
            /\ (d.tag = "Operator" /\ Len(d.tys) = 1) => log[k].ret = Some(d.tys[1])
            /\ (d.tag = "Operator" /\ Len(d.tys) # 1) => log[k].ret = NoneOpt
            /\ d.tag \in {"Trace", "Alias", "None"} => log[k].ret = NoneOpt

\* C3 witness: ty() has returned None for an Operator with two result types.
C3_Witness ==
    \E k \in CallsOf("ty") :
        /\ log[k].on.tag = "Operator"
        /\ Len(log[k].on.tys) = 2
        /\ log[k].ret = NoneOpt

\* C4: tys() is the whole result-type list of an Operator, [t] for a
\* BlockParam, PickOutput or Placeholder of type t, and empty for Alias, Trace
\* and None; so ty(d) = Some(t) if and only if tys(d) = [t].
C4_TysIsTheResultTypeList ==
    /\ \A k \in CallsOf("tys") :
           LET d == log[k].on
           IN  /\ d.tag = "Operator" => log[k].ret = d.tys
               /\ d.tag \in {"BlockParam", "PickOutput", "Placeholder"}
                   => log[k].ret = <<d.ty>>
               /\ d.tag \in {"Alias", "Trace", "None"} => log[k].ret = <<>>
    /\ \A i \in CallsOf("ty"), j \in CallsOf("tys") :
           log[i].on = log[j].on
               => \A t \in Types : (log[i].ret = Some(t)) <=> (log[j].ret = <<t>>)

\* C4 witness: ty() and tys() have both run on a Placeholder, and tys()
\* returned the one-element list of its type.
C4_Witness ==
    \E i \in CallsOf("ty"), j \in CallsOf("tys") :
        /\ log[i].on = log[j].on
        /\ log[j].on.tag = "Placeholder"
        /\ log[j].ret = <<log[j].on.ty>>
        /\ log[i].ret = Some(log[j].on.ty)

\* C5: visit_uses and update_uses on the None variant panic without ever
\* calling the closure, update_uses leaving the definition as it was; on
\* every other variant neither panics.
C5_NoneVariantPanics ==
    /\ \A k \in CallsOf("visit_uses") \cup CallsOf("update_uses") :
           /\ log[k].on.tag = "None"
               => (log[k].panicked /\ log[k].calls = <<>> /\ log[k].ret = log[k].on)
           /\ log[k].on.tag # "None" => ~log[k].panicked
    /\ aborted <=> (log # <<>> /\ log[Len(log)].panicked)
    /\ aborted => def = log[Len(log)].on

\* C5 witness: update_uses has panicked on a None definition.
C5_Witness ==
    /\ aborted
    /\ log[Len(log)].fn = "update_uses"
    /\ def = DefNone

----------------------------------------------------------------------------
(* Claims about FunctionBodyDisplay::fmt, checked under SpecFunc.          *)

\* The places in fout of the lines of the given kind about the given entity.
LinesAt(kind, ent) ==
    {i \in 1..Len(fout) :
        fout[i].ev = "line" /\ fout[i].kind = kind /\ fout[i].ent = ent}

\* The places in fout of the invocations of the given hook for the entity.
HooksAt(name, ent) ==
    {i \in 1..Len(fout) :
        fout[i].ev = "hook" /\ fout[i].kind = name /\ fout[i].ent = ent}

\* The entities of the lines of the given kind, in output order.
EntsOf(out, kind) ==
    LET ls == SelectSeq(out, LAMBDA e : e.ev = "line" /\ e.kind = kind)
    IN  [i \in 1..Len(ls) |-> ls[i].ent]

\* C8: printed with a decorator, after_inst(v) is invoked exactly once for
\* every value v of every block's instruction list, whatever v's definition
\* (Operator, PickOutput or Alias), after v's own text and before the next
\* instruction or the terminator is written.
C8_AfterInstAfterEveryInstruction ==
    (fpc = "done" /\ fbd.decorator # NoneOpt) =>
        \A b \in 1..Len(fbd.body.blocks) :
            LET insts == fbd.body.blocks[b].insts
            IN  \A k \in 1..Len(insts) :
                    /\ Cardinality(HooksAt("after_inst", insts[k])) = 1
                    /\ \A h \in HooksAt("after_inst", insts[k]) :
                           /\ \E i \in LinesAt("inst", insts[k]) : i < h
                           /\ \A j \in LinesAt("terminator", b - 1) : h < j
                           /\ k < Len(insts)
                               => \A j \in LinesAt("inst", insts[k + 1]) : h < j

\* C9: in verbose mode the pass over the value pool emits exactly one line
\* per value, in pool order, before the first block, whatever the variant of
\* its definition; in non-verbose mode it emits no value-definition line.
C9_VerbosePrePassListsEveryValue ==
    fpc # "begin" =>
        /\ fbd.verbose => EntsOf(fout, "valdef") = Entries(Len(fbd.body.values))
        /\ ~fbd.verbose => EntsOf(fout, "valdef") = <<>>
        /\ \A i, j \in 1..Len(fout) :
               (fout[i].ev = "line" /\ fout[i].kind = "valdef"
                /\ fout[j].ev = "line" /\ fout[j].kind = "block") => i < j

\* The lines, hooks left out, that a finished dump wrote for block b: from
\* its header up to the next block's header or the end of the function.
BlockLines(b) ==
    LET from == CHOOSE i \in LinesAt("block", b) : TRUE
        later == {j \in (from + 1)..Len(fout) :
                     fout[j].ev = "line" /\ fout[j].kind \in {"block", "close"}}
        to == CHOOSE j \in later : \A j2 \in later : j <= j2
    IN  SelectSeq(SubSeq(fout, from, to - 1), LAMBDA e : e.ev = "line")

\* Where a line stands in the order the claim gives for a block.
StrictRank(e) ==
    CASE e.kind = "block" -> 1
      [] e.kind = "preds" -> 2
      [] e.kind = "succs" -> 3
      [] e.kind = "local" -> 4
      [] e.kind \in {"inst", "eol"} -> 5
      [] e.kind = "terminator" -> 6
      [] OTHER -> 7

\* The same, with the local comment of an instruction counted as part of
\* that instruction.
GroupedRank(b, e) ==
    IF e.kind = "local"
       /\ \E k \in 1..Len(fbd.body.blocks[b + 1].insts) :
              fbd.body.blocks[b + 1].insts[k] = e.ent
    THEN 5 ELSE StrictRank(e)

\* What C10 and its amendment share: the function header first, the blocks
\* in pool order and once each, the closing brace last, and in every block
\* one header, one predecessor list, one successor list, the instructions in
\* instruction-list order and the terminator as the last line.
DumpFrame ==
    /\ fout[1].ev = "line" /\ fout[1].kind = "function"
    /\ fout[Len(fout)].ev = "line" /\ fout[Len(fout)].kind = "close"
    /\ EntsOf(fout, "function") = <<-1>> /\ EntsOf(fout, "close") = <<-1>>
    /\ EntsOf(fout, "block") = Entries(Len(fbd.body.blocks))
    /\ \A b \in 0..(Len(fbd.body.blocks) - 1) :
           LET ls == BlockLines(b)
           IN  /\ EntsOf(ls, "block") = <<b>>
               /\ EntsOf(ls, "preds") = <<b>>
               /\ EntsOf(ls, "succs") = <<b>>
               /\ EntsOf(ls, "terminator") = <<b>>
               /\ ls[Len(ls)].kind = "terminator"
               /\ EntsOf(ls, "inst") = fbd.body.blocks[b + 1].insts

\* C10 as stated: blocks in pool order, each once, and within every block
\* the header, the predecessor list, the successor list, the local comments,
\* the instructions in list order, the terminator last; the function header
\* before all blocks and the closing brace after the last terminator.
C10_BlockLayoutLocalsBeforeInstructions ==
    fpc = "done" =>
        /\ DumpFrame
        /\ \A b \in 0..(Len(fbd.body.blocks) - 1) :
               LET ls == BlockLines(b)
               IN  \A i \in 1..(Len(ls) - 1) : StrictRank(ls[i]) <= StrictRank(ls[i + 1])

\* C10 amended: as C10, except that only the local comments of the block's
\* parameters come before the instructions; the local comment of an
\* instruction comes right before that instruction's own line.
C10_BlockLayout ==
    fpc = "done" =>
        /\ DumpFrame
        /\ \A b \in 0..(Len(fbd.body.blocks) - 1) :
               LET ls == BlockLines(b)
               IN  \A i \in 1..(Len(ls) - 1) :
                       /\ GroupedRank(b, ls[i]) <= GroupedRank(b, ls[i + 1])
                       /\ (ls[i].kind = "local" /\ GroupedRank(b, ls[i]) = 5)
                           => (ls[i + 1].kind = "inst" /\ ls[i + 1].ent = ls[i].ent)

\* C10 witness: a finished dump of a body whose second block branches back
\* to the entry block and holds two instructions, in descending handle
\* order, each with a local comment.
C10_Witness ==
    /\ fpc = "done"
    /\ fbd.body.blocks[2].terminator = [kind |-> "br", target |-> 0]
    /\ Len(fbd.body.blocks[2].insts) = 2
    /\ fbd.body.blocks[2].insts[1] > fbd.body.blocks[2].insts[2]
    /\ Cardinality({i \in 1..Len(fout) : fout[i].ev = "line" /\ fout[i].kind = "local"}) = 2

\* Whether value v is defined as an Operator, a PickOutput or an Alias.
InstOk(v) == fbd.body.values[v + 1].tag \in {"Operator", "PickOutput", "Alias"}

\* Whether every value of the instruction list of block b (a pool index) is.
BlockOk(b) ==
    \A i \in 1..Len(fbd.body.blocks[b].insts) : InstOk(fbd.body.blocks[b].insts[i])

RECURSIVE InstsOfFirst(_)
\* The instruction lists of the first n blocks, one after the other.
InstsOfFirst(n) ==
    IF n = 0 THEN <<>> ELSE InstsOfFirst(n - 1) \o fbd.body.blocks[n].insts

\* The values of an instruction list that stand before its first value
\* that is not an Operator, a PickOutput or an Alias.
BeforeFirstBad(insts) ==
    LET bad == {i \in 1..Len(insts) : ~InstOk(insts[i])}
        first == CHOOSE i \in bad : \A j \in bad : i <= j
    IN  SubSeq(insts, 1, first - 1)

\* C12: printing a function body completes normally if and only if every
\* value of every block's instruction list is defined as an Operator, a
\* PickOutput or an Alias.  Otherwise the printer aborts at the first
\* instruction defined as None, Placeholder, BlockParam or Trace, having
\* written the header, every block before that one with its terminator, the
\* head of that block and the instructions before the offending one, and
\* neither a line for the offending instruction nor anything after it.
\* Values of the pool that are in no instruction list play no part.  The
\* printer is never stuck before it has completed or aborted.
C12_PrinterAbortsOnlyOnBadInstruction ==
    LET ok == \A b \in 1..Len(fbd.body.blocks) : BlockOk(b)
    IN  /\ fpc \in {"done", "panicked"} \/ ENABLED FuncNext
        /\ fpc = "done" => ok
        /\ fpc = "panicked" => ~ok
        /\ fpc = "panicked"
               => /\ \A b \in 1..fblk : BlockOk(b)
                  /\ ~BlockOk(fblk + 1)
                  /\ EntsOf(fout, "function") = <<-1>>
                  /\ EntsOf(fout, "block") = Entries(fblk + 1)
                  /\ EntsOf(fout, "terminator") = Entries(fblk)
                  /\ EntsOf(fout, "inst")
                         = InstsOfFirst(fblk)
                           \o BeforeFirstBad(fbd.body.blocks[fblk + 1].insts)
                  /\ EntsOf(fout, "close") = <<>>
        /\ fpc = "done"
               => /\ EntsOf(fout, "inst") = InstsOfFirst(Len(fbd.body.blocks))
                  /\ EntsOf(fout, "close") = <<-1>>

\* C12 witness: the printer has aborted at a Trace instruction that follows
\* a printed instruction in its block.
C12_Witness ==
    /\ fpc = "panicked"
    /\ Len(fbd.body.blocks[fblk + 1].insts) = 2
    /\ fbd.body.values[fbd.body.blocks[fblk + 1].insts[2] + 1].tag = "Trace"
    /\ EntsOf(fout, "inst") = <<fbd.body.blocks[fblk + 1].insts[1]>>

----------------------------------------------------------------------------
(* Claims about ModuleDisplay::fmt, checked under SpecModule.              *)

\* C6: the printer is deterministic: two display runs on the same module
\* with the same decorators write the same sequence of lines, whatever order
\* the signature-string map of each run iterates in.
C6_DumpsOfOneModuleAreEqual ==
    \A i, j \in 1..Len(dumps) : dumps[i] = dumps[j]

\* C6 witness: two finished dumps of a module with two signatures and two
\* functions, the second with a body, made with maps of different orders.
C6_Witness ==
    /\ Len(dumps) = 2
    /\ reordered
    /\ ~dumps[2].panicked
    /\ Len(md.module.signatures) = 2
    /\ Len(md.module.funcs) = 2
    /\ md.module.funcs[2].tag = "Body"

\* C7: in a module dump made with a per-function decorator map, the
\* decorator registered under a function in Body state is invoked at each
\* anchor while that body is printed: before_function_body, before_block and
\* after_block of every block, after_inst of its operator instructions,
\* after_function_body.
C7_ModuleDumpInvokesFunctionDecorators ==
    \A k \in 1..Len(dumps) :
        (~dumps[k].panicked /\ md.decorators # NoneOpt) =>
            \A f \in 0..(Len(md.module.funcs) - 1) :
                md.module.funcs[f + 1].tag = "Body" =>
                    LET dec == md.decorators[1][f]
                        body == md.module.funcs[f + 1].body
                        Invoked(name, ent) ==
                            \E i \in 1..Len(dumps[k].out) :
                                dumps[k].out[i] = Hook(name, ent, dec)
                    IN  /\ Invoked("before_function_body", -1)
                        /\ Invoked("after_function_body", -1)
                        /\ \A b \in 1..Len(body.blocks) :
                               /\ Invoked("before_block", b - 1)
                               /\ Invoked("after_block", b - 1)
                               /\ \A n \in 1..Len(body.blocks[b].insts) :
                                      body.values[body.blocks[b].insts[n] + 1].tag = "Operator"
                                          => Invoked("after_inst", body.blocks[b].insts[n])

----------------------------------------------------------------------------
(* Claims about waffle-util.rs, checked under SpecDriver.                  *)

PassOps == {"optimize", "convert_to_max_ssa"}

OutputOps == {"println", "to_wasm_bytes", "write"}

\* The selected passes, in the order the claim gives them.
SelectedPasses ==
    (IF opts.basic_opts THEN <<"optimize">> ELSE <<>>)
    \o (IF opts.max_ssa THEN <<"convert_to_max_ssa">> ELSE <<>>)

\* C11: in every run of the driver, for each subcommand, decoding comes
\* first (only the read of the input file precedes it) and every other call
\* follows a successful decode; a pass runs only after expand_all_funcs has
\* succeeded; optimize runs only with --basic-opts and convert_to_max_ssa
\* only with --max-ssa, and every optimize precedes every convert_to_max_ssa;
\* printing, encoding and writing happen only after every selected pass has
\* run on every body, and no pass runs after them; and when decoding or
\* expand_all_funcs fails no pass is applied, nothing is printed and no
\* output file is written.
C11_DriverPipelineOrder ==
    /\ \A k \in 1..Len(trace) :
        /\ trace[k].op = "from_wasm_bytes" => \A j \in 1..(k - 1) : trace[j].op = "read"
        /\ trace[k].op \notin {"read", "from_wasm_bytes"}
               => \E j \in 1..(k - 1) : trace[j] = Ev("from_wasm_bytes", -1, TRUE)
        /\ trace[k].op \in PassOps
               => \E j \in 1..(k - 1) : trace[j] = Ev("expand_all_funcs", -1, TRUE)
        /\ trace[k].op = "optimize" => opts.basic_opts
        /\ trace[k].op = "convert_to_max_ssa" => opts.max_ssa
        /\ trace[k].op = "optimize"
               => \A j \in 1..Len(trace) : trace[j].op = "convert_to_max_ssa" => k < j
        /\ trace[k].op \in OutputOps
               => /\ \E j \in 1..(k - 1) : trace[j] = Ev("expand_all_funcs", -1, TRUE)
                  /\ \A j \in (k + 1)..Len(trace) : trace[j].op \notin PassOps
                  /\ \A f \in 1..Len(dmod) :
                         dmod[f].tag = "Body"
                             => /\ dmod[f].applied = SelectedPasses
                                /\ \A q \in 1..Len(SelectedPasses) :
                                       \E j \in 1..(k - 1) :
                                           trace[j] = Ev(SelectedPasses[q], f - 1, TRUE)
    /\ (\E k \in 1..Len(trace) :
            trace[k].op \in {"from_wasm_bytes", "expand_all_funcs"} /\ ~trace[k].ok)
           => /\ \A k \in 1..Len(trace) : trace[k].op \notin PassOps \cup OutputOps
              /\ \A f \in 1..Len(dmod) : dmod[f].applied = <<>>
              /\ dpc = "exit_err"

\* C11 witness: a roundtrip with both flags over two bodies has written its
\* output file.
C11_Witness ==
    /\ dpc = "exit_ok"
    /\ opts.command = "roundtrip" /\ opts.basic_opts /\ opts.max_ssa
    /\ Cardinality({f \in 1..Len(dmod) : dmod[f].tag = "Body"}) >= 2
    /\ trace[Len(trace)] = Ev("write", -1, TRUE)

=============================================================================
